---- MODULE Spec2Model ----
(***************************************************************************)
(* Model of qmail-client's search-and-filter engine: MailFilter::fetch     *)
(* (src/src/client.rs) run against an IMAP session, and re-run by the      *)
(* interactive viewer's App::refresh (src/src/search.rs).                  *)
(*                                                                         *)
(* Strings are sequences of one-token strings.  A chrono DateTime is a     *)
(* record [ts, off]: epoch time and UTC offset, both counted in units of   *)
(* 1/DayLen of a day.  Rust's Option is a sequence of length 0 or 1.       *)
(***************************************************************************)
EXTENDS Integers, Sequences, FiniteSets, TLC

\* ---------------------------------------------------------------- bounds
\* time units per calendar day (86400 seconds in the program)
DayLen == 3
\* largest epoch time of a message or of a caller-supplied window bound
MaxTime == 5
\* mails in the folder, per family of initial states
WindowMails == 2
OrderMails == 3
FetchMails == 2
\* longest subject / pattern
MaxStrLen == 2
\* most immediate children of a multipart body structure
MaxParts == 2
\* runs of fetch (the first one plus App::refresh re-runs)
MaxRuns == 2
\* folders the server lists
MaxFolders == 2
\* mails in the viewer's folder
ViewerMails == 2
\* key events (r, Down, Up) in the viewer
MaxKeys == 3
\* key events in the runs that are not about the viewer
FewKeys == 1

\* ---------------------------------------------------------------- Option
None == <<>>
Some(x) == <<x>>
IsSome(o) == o # <<>>
Unwrap(o) == o[1]

\* ------------------------------------------------------------- date/time
Times == 0..MaxTime
TzOffsets == {0, 1}
\* how far west of UTC the server keeps its internal dates
ServerWest == {0, 1}
DateTime(t, o) == [ts |-> t, off |-> o]

\* chrono DateTime::timestamp(): the epoch time, whatever the offset
Timestamp(d) == d.ts

\* DateTime::format("%d-%b-%Y"): the calendar date in the value's own offset,
\* as a day number
FormatDate(d) == (d.ts + d.off) \div DayLen

\* "9999-12-01T00:00:00Z", the default end of MailBox::filter
EndDefault == DateTime(DayLen * ((MaxTime \div DayLen) + 2), 0)

\* the query string "SINCE <start date> BEFORE <end date>"
SearchQuery(f) ==
    [since |-> FormatDate(f.start_datetime), before |-> FormatDate(f.end_datetime)]

\* the server's answer to SEARCH SINCE d1 BEFORE d2 (RFC 3501: internal date,
\* disregarding time and timezone, within or later than d1 and earlier than d2)
ServerSearch(box, q) ==
    {u \in DOMAIN box :
        /\ FormatDate(box[u].internal_date) >= q.since
        /\ FormatDate(box[u].internal_date) < q.before}

\* the date test of fetch: true when the candidate is rejected
DateRejectedNoLower(f, date) ==
    Timestamp(date) > Timestamp(f.end_datetime)

DateRejected(f, date) ==
    \/ Timestamp(date) < Timestamp(f.start_datetime)
    \/ Timestamp(date) > Timestamp(f.end_datetime)

\* --------------------------------------------------------------- strings
RECURSIVE SeqsUpTo(_, _)
SeqsUpTo(S, n) ==
    IF n = 0 THEN {<<>>}
    ELSE LET shorter == SeqsUpTo(S, n - 1)
         IN  shorter \cup {Append(s, c) : s \in {x \in shorter : Len(x) = n - 1}, c \in S}

\* mailparse get_value(): RFC 2047 encoded-words are replaced by their text
DecodeToken(c) == IF c = "=?a?=" THEN "a" ELSE IF c = "=?b?=" THEN "b" ELSE c
DecodeHeaderValue(raw) == [i \in 1..Len(raw) |-> DecodeToken(raw[i])]

\* get_first_header("Subject").map(|h| h.get_value()).unwrap_or_default()
SubjectOf(m) == IF IsSome(m.subject) THEN DecodeHeaderValue(Unwrap(m.subject)) ELSE <<>>

\* str::split(','): the runs of tokens between the commas, one run more than
\* there are commas (the empty string gives one empty run)
RECURSIVE SplitFrom(_, _, _)
SplitFrom(s, parts, cur) ==
    IF s = <<>> THEN Append(parts, cur)
    ELSE IF Head(s) = "," THEN SplitFrom(Tail(s), Append(parts, cur), <<>>)
    ELSE SplitFrom(Tail(s), parts, Append(cur, Head(s)))

SplitComma(s) == SplitFrom(s, <<>>, <<>>)

\* str::trim(): without the white space at both ends
RECURSIVE TrimStart(_)
TrimStart(s) == IF s # <<>> /\ Head(s) = " " THEN TrimStart(Tail(s)) ELSE s

RECURSIVE TrimEnd(_)
TrimEnd(s) ==
    IF s # <<>> /\ s[Len(s)] = " " THEN TrimEnd(SubSeq(s, 1, Len(s) - 1)) ELSE s

Trim(s) == TrimEnd(TrimStart(s))

\* get_first_header(name).map(|h| h.get_value()).unwrap_or_default()
\*     .split(',').map(|s| s.trim().to_string()).collect()
\* for the header h (None when the message has no such header)
RecipientsNoTrim(h) ==
    SplitComma(IF IsSome(h) THEN DecodeHeaderValue(Unwrap(h)) ELSE <<>>)

Recipients(h) ==
    LET parts == SplitComma(IF IsSome(h) THEN DecodeHeaderValue(Unwrap(h)) ELSE <<>>)
    IN  [i \in 1..Len(parts) |-> Trim(parts[i])]

\* str::contains(&pattern)
RECURSIVE StartsWithAt(_, _, _)
StartsWithAt(s, p, i) ==
    IF p = <<>> THEN TRUE
    ELSE /\ i <= Len(s)
         /\ s[i] = Head(p)
         /\ StartsWithAt(s, Tail(p), i + 1)

StrContains(s, p) == \E i \in 1..(Len(s) + 1) : StartsWithAt(s, p, i)

\* regex::Regex::new: of the tokens modelled, "(" opens a group that is never
\* closed, which is a syntax error
RegexCompiles(p) == \A i \in 1..Len(p) : p[i] # "("

\* Regex::is_match: "^" asserts the start of the text, any other token is a
\* literal; the search is unanchored
RECURSIVE RegexMatchAt(_, _, _)
RegexMatchAt(s, p, i) ==
    IF p = <<>> THEN TRUE
    ELSE IF Head(p) = "^"
         THEN i = 1 /\ RegexMatchAt(s, Tail(p), i)
         ELSE /\ i <= Len(s)
              /\ s[i] = Head(p)
              /\ RegexMatchAt(s, Tail(p), i + 1)

RegexIsMatch(s, p) == \E i \in 1..(Len(s) + 1) : RegexMatchAt(s, p, i)

\* the subject test of fetch: "panic" when the pattern does not compile,
\* otherwise "keep" or "skip"
SubjectTestLiteralOnly(f, subject) ==
    IF StrContains(subject, f.subject_pattern) THEN "keep" ELSE "skip"

SubjectTest(f, subject) ==
    IF f.regex
    THEN IF ~RegexCompiles(f.subject_pattern) THEN "panic"
         ELSE IF RegexIsMatch(subject, f.subject_pattern) THEN "keep" ELSE "skip"
    ELSE IF StrContains(subject, f.subject_pattern) THEN "keep" ELSE "skip"

\* ----------------------------------------------------------- attachments
\* str::parse::<u32>(): an optional "+", then one or more decimal digits, the
\* value at most u32::MAX; None on anything else
DigitValue(c) ==
    CASE c = "0" -> 0 [] c = "1" -> 1 [] c = "2" -> 2 [] c = "3" -> 3 [] c = "4" -> 4
      [] c = "5" -> 5 [] c = "6" -> 6 [] c = "7" -> 7 [] c = "8" -> 8 [] c = "9" -> 9
      [] OTHER -> -1

\* u32::MAX in decimal
U32MaxDigits == <<"4", "2", "9", "4", "9", "6", "7", "2", "9", "5">>

IsDigits(s) == \A i \in 1..Len(s) : DigitValue(s[i]) >= 0

\* decimal digits without the leading zeros (one digit at least is kept)
RECURSIVE StripZeros(_)
StripZeros(s) == IF Len(s) > 1 /\ Head(s) = "0" THEN StripZeros(Tail(s)) ELSE s

\* a > b for two digit strings of one length
RECURSIVE DigitsGreater(_, _)
DigitsGreater(a, b) ==
    IF a = <<>> THEN FALSE
    ELSE IF DigitValue(Head(a)) # DigitValue(Head(b))
         THEN DigitValue(Head(a)) > DigitValue(Head(b))
         ELSE DigitsGreater(Tail(a), Tail(b))

ExceedsU32(s) ==
    \/ Len(s) > Len(U32MaxDigits)
    \/ Len(s) = Len(U32MaxDigits) /\ DigitsGreater(s, U32MaxDigits)

\* the parsed number is kept in decimal, without sign and leading zeros
ParseU32(s) ==
    LET digits == IF s # <<>> /\ Head(s) = "+" THEN Tail(s) ELSE s
    IN  IF digits = <<>> \/ ~IsDigits(digits) \/ ExceedsU32(StripZeros(digits))
        THEN None
        ELSE Some(StripZeros(digits))

\* Attachment::new: the name goes through parse_header("Subject: <name>") and
\* get_value(), the size is kept
AttachmentNew(name, size) == [name |-> DecodeHeaderValue(name), size |-> size]

\* the pattern BodyStructure::Basic { common: BodyContentCommon { disposition:
\* Some(ContentDisposition { ty: "attachment", params: Some(params) }), .. }, .. }
IsAttachmentPartAnyKind(body) ==
    /\ body.kind # "multipart"
    /\ IsSome(body.disposition)
    /\ Unwrap(body.disposition).ty = "attachment"
    /\ IsSome(Unwrap(body.disposition).params)

IsAttachmentPart(body) ==
    /\ body.kind = "basic"
    /\ IsSome(body.disposition)
    /\ Unwrap(body.disposition).ty = "attachment"
    /\ IsSome(Unwrap(body.disposition).params)

\* the loop over bodies: [ok, err, list]; ok is FALSE when an unwrap or an
\* index panics
RECURSIVE AttachmentsOfBodies(_, _)
AttachmentsOfBodies(bodies, acc) ==
    IF bodies = <<>> THEN [ok |-> TRUE, err |-> "none", list |-> acc]
    ELSE IF ~IsAttachmentPart(Head(bodies)) THEN AttachmentsOfBodies(Tail(bodies), acc)
    ELSE LET params == Unwrap(Unwrap(Head(bodies).disposition).params)
         IN  IF Len(params) = 0
             THEN [ok |-> FALSE, err |-> "params_index", list |-> acc]
             ELSE IF Len(params) >= 2 /\ ~IsSome(ParseU32(params[2][2]))
             THEN [ok |-> FALSE, err |-> "size_parse", list |-> acc]
             ELSE AttachmentsOfBodies(
                      Tail(bodies),
                      Append(acc, AttachmentNew(
                          params[1][2],
                          IF Len(params) >= 2 THEN ParseU32(params[2][2]) ELSE None)))

\* the attachment list of a body structure
ExtractAttachments(bs) ==
    IF bs.kind = "multipart"
    THEN AttachmentsOfBodies(bs.bodies, <<>>)
    ELSE [ok |-> TRUE, err |-> "none", list |-> <<>>]

\* ------------------------------------------------------------------ order
\* the sort key |v| -v.internal_date.timestamp()
SortKey(mail) == 0 - Timestamp(mail.internal_date)

\* Vec::sort_by_key: a stable sort, here by insertion after the elements whose
\* key is not greater
InsertAt(s, n, m) == SubSeq(s, 1, n) \o <<m>> \o SubSeq(s, n + 1, Len(s))

RECURSIVE SortFrom(_, _, _)
SortFrom(ms, i, sorted) ==
    IF i > Len(ms) THEN sorted
    ELSE SortFrom(ms, i + 1,
             InsertAt(sorted,
                      Cardinality({j \in 1..Len(sorted) : SortKey(sorted[j]) <= SortKey(ms[i])}),
                      ms[i]))

RECURSIVE SortFromUnstable(_, _, _)
SortFromUnstable(ms, i, sorted) ==
    IF i > Len(ms) THEN sorted
    ELSE SortFromUnstable(ms, i + 1,
             InsertAt(sorted,
                      Cardinality({j \in 1..Len(sorted) : SortKey(sorted[j]) < SortKey(ms[i])}),
                      ms[i]))

SortByKeyUnstable(ms) == SortFromUnstable(ms, 1, <<>>)

SortByKeyNone(ms) == ms

SortByKey(ms) == SortFrom(ms, 1, <<>>)

\* Vec::reverse
Reverse(s) == [i \in 1..Len(s) |-> s[Len(s) + 1 - i]]

\* the tail of fetch: sort, then reverse on request
Finish(f, ms) == IF f.reverse THEN Reverse(SortByKey(ms)) ELSE SortByKey(ms)

\* -------------------------------------------------- one candidate of fetch
Skip == [kind |-> "skip", err |-> "none", mail |-> None]
Panic(e) == [kind |-> "panic", err |-> e, mail |-> None]
Push(mail) == [kind |-> "push", err |-> "none", mail |-> Some(mail)]

\* the body of the loop over the uids for message m of the folder; parse_mail
\* is unwrapped on the header block and on the text (the empty default when the
\* text is absent), so a block it rejects panics
ProcessMessage(f, uid, m) ==
    IF m.resp.status = "err" THEN Panic("fetch_error")
    ELSE IF m.resp.status = "empty" THEN Skip
    ELSE IF "INTERNALDATE" \notin m.resp.items THEN Panic("no_internal_date")
    ELSE IF DateRejected(f, m.internal_date) THEN Skip
    ELSE IF "BODYSTRUCTURE" \notin m.resp.items THEN Panic("no_bodystructure")
    ELSE IF ~ExtractAttachments(m.bodystructure).ok
         THEN Panic(ExtractAttachments(m.bodystructure).err)
    ELSE IF "HEADER" \notin m.resp.items THEN Panic("no_header")
    ELSE IF "HEADER" \in m.resp.malformed THEN Panic("bad_header")
    ELSE IF "TEXT" \in m.resp.items /\ "TEXT" \in m.resp.malformed THEN Panic("bad_text")
    ELSE LET mail == [uid |-> uid,
                      subject |-> SubjectOf(m),
                      to |-> Recipients(m.to),
                      cc |-> Recipients(m.cc),
                      internal_date |-> m.internal_date,
                      attachments |-> ExtractAttachments(m.bodystructure).list]
             test == SubjectTest(f, mail.subject)
         IN  IF test = "panic" THEN Panic("bad_regex")
             ELSE IF test = "skip" THEN Skip
             ELSE Push(mail)

\* ------------------------------------------------- the viewer's selection
\* usize arithmetic is modulo 2^64; the values 2^64 - k are written -k here, so
\* that usize::MAX is -1
WrappingSub1(n) == n - 1

\* a >= b on usize
UsizeGe(a, b) == IF (a < 0) = (b < 0) THEN a >= b ELSE a < 0

\* App::next: the row after the selected one, the first after the last
NextIndex(sel, len) ==
    IF ~IsSome(sel) THEN 0
    ELSE IF UsizeGe(Unwrap(sel), WrappingSub1(len)) THEN 0
    ELSE Unwrap(sel) + 1

\* App::next evaluates mails.len() - 1 for every selection
NextUnderflows(sel, len) == IsSome(sel) /\ len = 0

\* App::previous: the row before the selected one, the last before the first
PreviousIndex(sel, len) ==
    IF ~IsSome(sel) THEN 0
    ELSE IF Unwrap(sel) = 0 THEN WrappingSub1(len)
    ELSE Unwrap(sel) - 1

\* App::previous evaluates mails.len() - 1 when row 0 is selected
PreviousUnderflows(sel, len) == IsSome(sel) /\ Unwrap(sel) = 0 /\ len = 0

\* ------------------------------------------------------------------ state
VARIABLES
    folders,    \* the folders the server lists, in order: [name, box, selectable]
                \* (never written)
    selected,   \* the place in folders of the folder selected on the session, 0: none
    wanted,     \* the folder name given to Client::get
    filter,     \* the MailFilter: subject_pattern, start/end_datetime, regex, reverse
    pc,         \* where the run is: "get", "start", "loop", "done" (returned) or "panic"
    err,        \* what panicked, "none" otherwise
    ret,        \* the result of session.search: [ok, uids]
    iter,       \* the order in which uids.into_iter() yields the HashSet's elements
    idx,        \* the position in iter of the next uid to fetch
    mails,      \* the Vec<Mail> being built; the returned list once pc = "done"
    log,        \* the requests this run has sent on the session, in order
    prev,       \* the list the previous run returned (App.mails), None before
    runs,       \* the number of the current run
    state,      \* App.state.selected(): the selected row of the table, an Option
    keys,       \* the key events (r, Down, Up) run_app has still to read
    overflow_checks, \* the build profile: TRUE panics on integer overflow (debug),
                \* FALSE wraps around (release); never written
    wrapped     \* whether a usize subtraction has wrapped around

vars ==
    <<folders, selected, wanted, filter, pc, err, ret, iter, idx, mails, log, prev, runs,
      state, keys, overflow_checks, wrapped>>

\* the messages of the folder selected on the session: uid -> message
mailbox == IF selected = 0 THEN <<>> ELSE folders[selected].box

\* utf7_imap::decode_utf7_imap: a modified UTF-7 name gives its text
DecodeUtf7(name) == IF name = "R&-D" THEN "R&D" ELSE name

\* the first listed folder the server refuses to select, 0 when it refuses none
FirstRefused(fs) ==
    IF \A k \in 1..Len(fs) : fs[k].selectable THEN 0
    ELSE CHOOSE k \in 1..Len(fs) :
            /\ ~fs[k].selectable
            /\ \A j \in 1..(k - 1) : fs[j].selectable

ListRequest == [op |-> "list", arg |-> <<>>]

\* Client::mail_boxes: the requests it sends, LIST and then a SELECT for every
\* listed folder in turn, up to the first one refused
ListingRequests(fs) ==
    <<ListRequest>> \o
    [k \in 1..(IF FirstRefused(fs) = 0 THEN Len(fs) ELSE FirstRefused(fs)) |->
        [op |-> "select", arg |-> <<fs[k].name>>]]

\* Client::mail_boxes: the last folder selected stays selected; a refused
\* SELECT leaves none selected
SelectedAfterListing(fs, sel) ==
    IF FirstRefused(fs) # 0 THEN 0
    ELSE IF fs = <<>> THEN sel
    ELSE Len(fs)

\* Client::get: the decoded names equal to the one asked for
Matching(fs, name) == {k \in 1..Len(fs) : DecodeUtf7(fs[k].name) = name}

\* every order in which a HashSet can yield the elements of S
Orders(S) ==
    {s \in [1..Cardinality(S) -> S] : \A i, j \in 1..Cardinality(S) : s[i] = s[j] => i = j}

\* what session.search can return: an error, or the uids the server found
SearchResults(box, f) ==
    {[ok |-> FALSE, uids |-> {}], [ok |-> TRUE, uids |-> ServerSearch(box, SearchQuery(f))]}

\* if let Ok(uids) = ret: the uids the loop runs over, none after an error
CandidatesOrAll(box, r) == IF r.ok THEN r.uids ELSE DOMAIN box

Candidates(box, r) == IF r.ok THEN r.uids ELSE {}

\* --------------------------------------------------------------- actions
\* Client::get, as main and App::refresh call it before fetch: list and select
\* the folders, return the one of the name asked for, unwrap it.  A failed
\* LIST panics in mail_boxes, a refused SELECT is returned by ? and panics at
\* the unwrap in get, a name not listed panics at the caller's unwrap
Get ==
    /\ pc = "get"
    /\ \E listed \in BOOLEAN :
          IF ~listed
          THEN /\ log' = Append(log, ListRequest)
               /\ selected' = selected
               /\ pc' = "panic"
               /\ err' = "list_error"
          ELSE /\ log' = log \o ListingRequests(folders)
               /\ selected' = SelectedAfterListing(folders, selected)
               /\ IF FirstRefused(folders) # 0
                  THEN pc' = "panic" /\ err' = "select_error"
                  ELSE IF Matching(folders, wanted) = {}
                  THEN pc' = "panic" /\ err' = "folder_not_found"
                  ELSE pc' = "start" /\ err' = err
    /\ UNCHANGED <<folders, wanted, filter, ret, iter, idx, mails, prev, runs,
                   state, keys, overflow_checks, wrapped>>

\* fetch up to the loop: build the query, session.search; with nothing to
\* loop over, sort and return
Search ==
    /\ pc = "start"
    /\ \E r \in SearchResults(mailbox, filter) :
       \E order \in Orders(Candidates(mailbox, r)) :
          /\ ret' = r
          /\ iter' = order
          /\ idx' = 1
          /\ log' = Append(log, [op |-> "search",
                       arg |-> <<SearchQuery(filter).since, SearchQuery(filter).before>>])
          /\ IF order = <<>>
             THEN /\ mails' = Finish(filter, <<>>)
                  /\ pc' = "done"
             ELSE /\ mails' = <<>>
                  /\ pc' = "loop"
    /\ UNCHANGED <<folders, selected, wanted, filter, err, prev, runs,
                   state, keys, overflow_checks, wrapped>>

\* one iteration of the loop: session.fetch for the next uid, the filters, the
\* push; after the last uid, sort and return
FetchUid ==
    /\ pc = "loop"
    /\ LET uid == iter[idx]
           out == ProcessMessage(filter, uid, mailbox[uid])
           acc == IF out.kind = "push" THEN Append(mails, Unwrap(out.mail)) ELSE mails
       IN  /\ log' = Append(log, [op |-> "fetch", arg |-> <<uid>>])
           /\ IF out.kind = "panic"
              THEN /\ pc' = "panic"
                   /\ err' = out.err
                   /\ UNCHANGED <<mails, idx>>
              ELSE /\ err' = err
                   /\ IF idx = Len(iter)
                      THEN /\ mails' = Finish(filter, acc)
                           /\ pc' = "done"
                           /\ idx' = idx
                      ELSE /\ mails' = acc
                           /\ pc' = "loop"
                           /\ idx' = idx + 1
    /\ UNCHANGED <<folders, selected, wanted, filter, ret, iter, prev, runs,
                   state, keys, overflow_checks, wrapped>>

\* run_app, KeyCode::Char('r'): App::refresh.  The viewer keeps the returned list and runs the same filter
\* again on the same folder; the selection is left as it is
Refresh ==
    /\ pc = "done"
    /\ runs < MaxRuns
    /\ keys > 0
    /\ keys' = keys - 1
    /\ prev' = Some([ok |-> ret.ok, mails |-> mails])
    /\ runs' = runs + 1
    /\ pc' = "get"
    /\ mails' = <<>>
    /\ log' = <<>>
    /\ iter' = <<>>
    /\ idx' = 1
    /\ ret' = [ok |-> FALSE, uids |-> {}]
    /\ UNCHANGED <<folders, selected, wanted, filter, err,
                   state, overflow_checks, wrapped>>

\* run_app, KeyCode::Down: App::next.  mails.len() - 1 on an empty list
\* panics in a build with overflow checks and wraps around in one without
AppNext ==
    /\ pc = "done"
    /\ keys > 0
    /\ keys' = keys - 1
    /\ IF NextUnderflows(state, Len(mails)) /\ overflow_checks
       THEN /\ pc' = "panic"
            /\ err' = "subtract_overflow"
            /\ UNCHANGED <<state, wrapped>>
       ELSE /\ state' = Some(NextIndex(state, Len(mails)))
            /\ wrapped' = (wrapped \/ NextUnderflows(state, Len(mails)))
            /\ UNCHANGED <<pc, err>>
    /\ UNCHANGED <<folders, selected, wanted, filter, ret, iter, idx, mails, log, prev, runs,
                   overflow_checks>>

\* run_app, KeyCode::Up: App::previous
AppPrevious ==
    /\ pc = "done"
    /\ keys > 0
    /\ keys' = keys - 1
    /\ IF PreviousUnderflows(state, Len(mails)) /\ overflow_checks
       THEN /\ pc' = "panic"
            /\ err' = "subtract_overflow"
            /\ UNCHANGED <<state, wrapped>>
       ELSE /\ state' = Some(PreviousIndex(state, Len(mails)))
            /\ wrapped' = (wrapped \/ PreviousUnderflows(state, Len(mails)))
            /\ UNCHANGED <<pc, err>>
    /\ UNCHANGED <<folders, selected, wanted, filter, ret, iter, idx, mails, log, prev, runs,
                   overflow_checks>>

Next == Get \/ Search \/ FetchUid \/ Refresh \/ AppNext \/ AppPrevious

\* --------------------------------------------------------- initial states
\* a fetch response: its status, the items it holds, and those of the header
\* block and the text that mailparse::parse_mail rejects
FullResponse ==
    [status |-> "ok", items |-> {"INTERNALDATE", "HEADER", "TEXT", "BODYSTRUCTURE"},
     malformed |-> {}]

Part(kind, disposition, bodies) ==
    [kind |-> kind, disposition |-> disposition, bodies |-> bodies]

PlainBody == Part("text", None, <<>>)

\* a message with its Subject, To and CC headers (None when it has none)
MessageWith(date, subject, to, cc, bs, resp) ==
    [internal_date |-> date, subject |-> subject, to |-> to, cc |-> cc,
     bodystructure |-> bs, resp |-> resp]

Message(date, subject, bs, resp) == MessageWith(date, subject, None, None, bs, resp)

\* MailBox::filter(pattern, start) then end_date, regex, reverse
MailFilter(pattern, start, end, regex, reverse) ==
    [subject_pattern |-> pattern, start_datetime |-> start, end_datetime |-> end,
     regex |-> regex, reverse |-> reverse]

\* a server with the one folder INBOX, holding box, which it lets select
OnlyInbox(box) == <<[name |-> "INBOX", box |-> box, selectable |-> TRUE]>>

InitRunOn(name) ==
    /\ selected = 0
    /\ wanted = name
    /\ pc = "get"
    /\ err = "none"
    /\ ret = [ok |-> FALSE, uids |-> {}]
    /\ iter = <<>>
    /\ idx = 1
    /\ mails = <<>>
    /\ log = <<>>
    /\ prev = None
    /\ runs = 1
    /\ state = None
    /\ wrapped = FALSE

\* a run in a build without overflow checks, FewKeys key events after it
InitRun ==
    /\ InitRunOn("INBOX")
    /\ keys = FewKeys
    /\ overflow_checks = FALSE

\* windows: any dates for the mails, in the server's offset; any start and end,
\* in the caller's offset
InitWindow ==
    /\ \E west \in ServerWest :
          \E box \in [1..WindowMails ->
                          {Message(DateTime(t, 0 - west), Some(<<"a">>), PlainBody, FullResponse) :
                              t \in Times}] :
             folders = OnlyInbox(box)
    /\ filter \in {MailFilter(<<"a">>, DateTime(s, o), DateTime(e, o), FALSE, FALSE) :
                       s \in Times, e \in Times, o \in TzOffsets}
    /\ InitRun

\* order: mails of one day, all inside the default window, both orders
InitOrder ==
    /\ \E box \in [1..OrderMails ->
                       {Message(DateTime(t, 0), Some(<<"a">>), PlainBody, FullResponse) :
                           t \in 0..(DayLen - 1)}] :
          folders = OnlyInbox(box)
    /\ filter \in {MailFilter(<<"a">>, DateTime(0, 0), EndDefault, FALSE, r) :
                       r \in BOOLEAN}
    /\ InitRun

\* subjects: one mail with any subject, any pattern, literal or regex
SubjectTokens == {"a", "^", "=?a?="}
PatternTokens == {"a", "^", "("}

InitSubject ==
    /\ \E box \in [{1} ->
                       {Message(DateTime(0, 0), s, PlainBody, FullResponse) :
                           s \in {None} \cup {Some(x) : x \in SeqsUpTo(SubjectTokens, MaxStrLen)}}] :
          folders = OnlyInbox(box)
    /\ filter \in {MailFilter(p, DateTime(0, 0), EndDefault, re, FALSE) :
                       p \in SeqsUpTo(PatternTokens, MaxStrLen), re \in BOOLEAN}
    /\ InitRun

\* fetch responses: an error, no message, a message lacking some items, or one
\* whose header block or text does not parse
Responses ==
    {[status |-> "err", items |-> {}, malformed |-> {}],
     [status |-> "empty", items |-> {}, malformed |-> {}],
     FullResponse}
    \cup {[status |-> "ok", items |-> FullResponse.items \ {i}, malformed |-> {}] :
              i \in FullResponse.items}
    \cup {[status |-> "ok", items |-> {}, malformed |-> {}]}
    \cup {[status |-> "ok", items |-> FullResponse.items, malformed |-> {i}] :
              i \in {"HEADER", "TEXT"}}

InitFetch ==
    /\ \E box \in [1..FetchMails ->
                       {Message(DateTime(t, 0), Some(<<"a">>), PlainBody, r) :
                           t \in {0, 1}, r \in Responses}] :
          folders = OnlyInbox(box)
    /\ filter = MailFilter(<<"a">>, DateTime(1, 0), EndDefault, FALSE, FALSE)
    /\ InitRun

\* body structures: one mail, any top node
ParamLists ==
    { << <<"filename", <<"a">> >> >>,
      << <<"filename", <<"=?b?=">> >>, <<"size", <<"7">> >> >>,
      << <<"filename", <<"b">> >>, <<"size", <<"+", "1", "0", "2", "4">> >>, <<"x", <<"a">> >> >>,
      << <<"filename", <<"b">> >>, <<"creation-date", <<"a">> >> >>,
      << <<"filename", <<"a">> >>,
         <<"size", <<"4", "2", "9", "4", "9", "6", "7", "2", "9", "6">> >> >>,
      << <<"size", <<"7">> >>, <<"filename", <<"a">> >> >> }

Dispositions ==
    {None, Some([ty |-> "attachment", params |-> None])}
    \cup {Some([ty |-> t, params |-> Some(ps)]) : t \in {"attachment", "inline"}, ps \in ParamLists}

LeafParts == {Part(k, d, <<>>) : k \in {"basic", "text"}, d \in Dispositions}

NestedParts ==
    {Part("multipart", None, <<Part("basic", Some([ty |-> "attachment", params |-> Some(ps)]), <<>>)>>) :
        ps \in {<< <<"filename", <<"a">> >> >>}}

RECURSIVE BodiesUpTo(_, _)
BodiesUpTo(S, n) ==
    IF n = 0 THEN {<<>>}
    ELSE LET shorter == BodiesUpTo(S, n - 1)
         IN  shorter \cup {Append(s, c) : s \in {x \in shorter : Len(x) = n - 1}, c \in S}

BodyStructures ==
    LeafParts \cup
    {Part("multipart", None, bs) : bs \in BodiesUpTo(LeafParts \cup NestedParts, MaxParts)}

InitAttach ==
    /\ \E box \in [{1} ->
                       {Message(DateTime(0, 0), Some(<<"a">>), bs, FullResponse) :
                           bs \in BodyStructures}] :
          folders = OnlyInbox(box)
    /\ filter = MailFilter(<<"a">>, DateTime(0, 0), EndDefault, FALSE, FALSE)
    /\ InitRun

\* recipients: one mail with any To and CC header, or none
RecipientTokens == {"x", ",", " ", "=?a?="}

HeaderValues == {None} \cup {Some(x) : x \in SeqsUpTo(RecipientTokens, MaxStrLen)}

InitRecipients ==
    /\ \E box \in [{1} ->
                       {MessageWith(DateTime(0, 0), Some(<<"a">>), to, cc, PlainBody, FullResponse) :
                           to \in HeaderValues, cc \in HeaderValues}] :
          folders = OnlyInbox(box)
    /\ filter = MailFilter(<<"a">>, DateTime(0, 0), EndDefault, FALSE, FALSE)
    /\ InitRun

\* folders: any listing of folders of different names, each empty or holding one
\* mail, each one the server lets select or refuses; any name asked for
FolderNames == {"INBOX", "Sent", "R&-D"}
WantedNames == {"INBOX", "Sent", "R&D", "R&-D"}

FolderBoxes ==
    {<<>>, <<Message(DateTime(0, 0), Some(<<"a">>), PlainBody, FullResponse)>>}

FolderListings ==
    {fs \in UNION {[1..n -> [name : FolderNames, box : FolderBoxes, selectable : BOOLEAN]] :
                        n \in 1..MaxFolders} :
        \A i, j \in 1..Len(fs) : fs[i].name = fs[j].name => i = j}

InitFolders ==
    /\ folders \in FolderListings
    /\ filter = MailFilter(<<"a">>, DateTime(0, 0), EndDefault, FALSE, FALSE)
    /\ \E name \in WantedNames : InitRunOn(name)
    /\ keys = FewKeys
    /\ overflow_checks = FALSE

\* the viewer: a list of up to ViewerMails rows, either build, MaxKeys key events
InitViewer ==
    /\ \E n \in 0..ViewerMails :
       \E box \in [1..n -> {Message(DateTime(t, 0), Some(<<"a">>), PlainBody, FullResponse) :
                                t \in {0, 1}}] :
          folders = OnlyInbox(box)
    /\ filter = MailFilter(<<"a">>, DateTime(0, 0), EndDefault, FALSE, FALSE)
    /\ InitRunOn("INBOX")
    /\ keys = MaxKeys
    /\ overflow_checks \in BOOLEAN

Init == InitWindow \/ InitOrder \/ InitSubject \/ InitFetch \/ InitAttach \/ InitRecipients \/ InitFolders
        \/ InitViewer

SpecWindow == InitWindow /\ [][Next]_vars
SpecOrder == InitOrder /\ [][Next]_vars
SpecSubject == InitSubject /\ [][Next]_vars
SpecFetch == InitFetch /\ [][Next]_vars
SpecAttach == InitAttach /\ [][Next]_vars
SpecRecipients == InitRecipients /\ [][Next]_vars
SpecFolders == InitFolders /\ [][Next]_vars
SpecViewer == InitViewer /\ [][Next]_vars
Spec == Init /\ [][Next]_vars

\* ----------------------------------------------------------------- claims
Returned == pc = "done"

\* this run has sent its search (and maybe fetches) on the session
SearchSent == \E k \in 1..Len(log) : log[k].op \in {"search", "fetch"}

ResultUids == {mails[i].uid : i \in 1..Len(mails)}

InWindow(t) ==
    /\ Timestamp(filter.start_datetime) <= t
    /\ t <= Timestamp(filter.end_datetime)

\* C1: search completeness.  Whenever the search succeeded and fetch returned,
\* every message of the folder whose internal date lies in the exact window,
\* whose subject matches and whose fetch returns all items is in the list.
C1_SearchComplete ==
    (Returned /\ ret.ok) =>
        \A u \in DOMAIN mailbox :
            ( /\ InWindow(Timestamp(mailbox[u].internal_date))
              /\ SubjectTest(filter, SubjectOf(mailbox[u])) = "keep"
              /\ mailbox[u].resp = FullResponse )
            => u \in ResultUids

\* C2: exact date filter.  Every record of the returned list carries its
\* message's internal date, and that date t satisfies start <= t <= end in
\* epoch time; with start > end the list is empty.
C2_ExactDateFilter ==
    Returned =>
        /\ \A i \in 1..Len(mails) :
              /\ mails[i].internal_date = mailbox[mails[i].uid].internal_date
              /\ Timestamp(filter.start_datetime) <= Timestamp(mails[i].internal_date)
              /\ Timestamp(mails[i].internal_date) <= Timestamp(filter.end_datetime)
        /\ (Timestamp(filter.start_datetime) > Timestamp(filter.end_datetime) => mails = <<>>)

\* C2 witness: the server search returned a candidate dated outside the exact
\* window, which was left out, next to a candidate that was kept.
C2_Witness ==
    /\ Returned
    /\ mails # <<>>
    /\ \E u \in ret.uids :
          /\ ~InWindow(Timestamp(mailbox[u].internal_date))
          /\ u \notin ResultUids

ResultTimes == [i \in 1..Len(mails) |-> Timestamp(mails[i].internal_date)]

IterTimes == [i \in 1..Len(iter) |-> Timestamp(mailbox[iter[i]].internal_date)]

\* C3: result ordering.  The returned list is sorted by internal date, newest
\* first by default and oldest first with reverse, and holds every accepted
\* mail once.
C3_ResultOrdering ==
    Returned =>
        /\ \A i, j \in 1..Len(mails) :
              i < j => IF filter.reverse
                       THEN ResultTimes[i] <= ResultTimes[j]
                       ELSE ResultTimes[i] >= ResultTimes[j]
        /\ ResultUids = ret.uids
        /\ Len(mails) = Cardinality(ret.uids)

\* C3 witness: the uids came as [T1, T3, T2] and reverse returned
\* [T1, T2, T3].
C3_Witness ==
    /\ Returned
    /\ filter.reverse
    /\ IterTimes = <<0, 2, 1>>
    /\ ResultTimes = <<0, 1, 2>>

\* the place of a uid in the order the search result was iterated in
Pos(u) == CHOOSE k \in 1..Len(iter) : iter[k] = u

\* C8 as stated: two returned mails of equal internal date are in the order
\* in which the search result yielded their uids, with and without reverse.
C8_TieOrderAsStated ==
    Returned =>
        \A i, j \in 1..Len(mails) :
            (i < j /\ ResultTimes[i] = ResultTimes[j])
            => Pos(mails[i].uid) < Pos(mails[j].uid)

\* C8 amended: two returned mails of equal internal date are in the order in
\* which the search result yielded their uids when reverse is false, and in
\* the opposite order when reverse is true.
C8_TieOrder ==
    Returned =>
        \A i, j \in 1..Len(mails) :
            (i < j /\ ResultTimes[i] = ResultTimes[j])
            => IF filter.reverse
               THEN Pos(mails[i].uid) > Pos(mails[j].uid)
               ELSE Pos(mails[i].uid) < Pos(mails[j].uid)

\* C8 witness: a returned list with two mails of one date and a third of
\* another, under reverse, the uids not having come in uid order.
C8_Witness ==
    /\ Returned
    /\ filter.reverse
    /\ Len(mails) = 3
    /\ ResultTimes[2] = ResultTimes[3]
    /\ ResultTimes[1] # ResultTimes[2]
    /\ iter # <<1, 2, 3>>

\* C9: idempotence.  A run that follows another on the unchanged folder, the
\* search having succeeded both times, returns the list the first returned.
C9_Idempotent ==
    (Returned /\ ret.ok /\ IsSome(prev) /\ Unwrap(prev).ok)
    => mails = Unwrap(prev).mails

\* C6: coarse search failure.  Once session.search has returned an error, the
\* run has sent no fetch, has not panicked, and has returned the empty list.
C6_SearchFailureEmpty ==
    (SearchSent /\ ~ret.ok) =>
        /\ pc = "done"
        /\ err = "none"
        /\ mails = <<>>
        /\ \A k \in 1..Len(log) : log[k].op # "fetch"

\* C6 witness: under reverse, a first run returned mails, the refresh's search
\* failed and that run returned the empty list.
C6_Witness ==
    /\ Returned
    /\ ~ret.ok
    /\ filter.reverse
    /\ IsSome(prev)
    /\ Unwrap(prev).mails # <<>>
    /\ mails = <<>>
    /\ log[Len(log)].op = "search"

\* s holds p as a contiguous run of tokens
HasSubstring(s, p) ==
    \E k \in 0..Len(s) :
        /\ k + Len(p) <= Len(s)
        /\ \A q \in 1..Len(p) : s[k + q] = p[q]

\* the number of literal tokens of p before place q
LiteralsBefore(p, q) == Cardinality({r \in 1..(q - 1) : p[r] # "^"})

\* the pattern p, read as a regular expression, matches somewhere in s: from
\* some place k on, the literals of p follow one another in s, and every "^"
\* of p stands where the start of s has been reached
RegexFinds(s, p) ==
    /\ \A q \in 1..Len(p) : p[q] # "("
    /\ \E k \in 1..(Len(s) + 1) :
          \A q \in 1..Len(p) :
              IF p[q] = "^"
              THEN k + LiteralsBefore(p, q) = 1
              ELSE /\ k + LiteralsBefore(p, q) <= Len(s)
                   /\ s[k + LiteralsBefore(p, q)] = p[q]

\* C4: subject filter.  Every record of the returned list carries its
\* message's decoded subject, and that subject holds the pattern as a substring
\* when regex is false, and is matched somewhere by the pattern as a regular
\* expression when regex is true.
C4_SubjectFilter ==
    Returned =>
        \A i \in 1..Len(mails) :
            /\ mails[i].subject = SubjectOf(mailbox[mails[i].uid])
            /\ IF filter.regex
               THEN RegexFinds(mails[i].subject, filter.subject_pattern)
               ELSE HasSubstring(mails[i].subject, filter.subject_pattern)

\* C4 witness: with regex, the anchored pattern ^a kept a mail whose subject
\* starts with a and does not hold the two tokens "^", "a".
C4_Witness ==
    /\ Returned
    /\ filter.regex
    /\ filter.subject_pattern = <<"^", "a">>
    /\ Len(mails) = 1
    /\ mails[1].subject[1] = "a"
    /\ ~HasSubstring(mails[1].subject, filter.subject_pattern)

\* C7: an invalid regular expression is rejected before any network activity:
\* with regex set and a pattern that does not compile, neither the search nor
\* a fetch is ever sent on the session.
C7_InvalidRegexBeforeNetwork ==
    (filter.regex /\ ~RegexCompiles(filter.subject_pattern)) => ~SearchSent

\* the panics of fetch that an absent item of the fetch response causes
MissErrors == {"no_internal_date", "no_bodystructure", "no_header"}

\* C5: a fetch miss is a silent skip.  No absent item makes fetch panic, and a
\* uid whose fetch lacks the message or any item is not in the returned list.
C5_FetchMissSilentSkip ==
    /\ err \notin MissErrors
    /\ Returned => \A u \in ResultUids : mailbox[u].resp = FullResponse

\* ------------------------------------------------------- C10, attachments
TheMessage == mailbox[1]

\* the children of the top node that count as attachments, when it is multipart
AttachmentChildren(bs) ==
    IF bs.kind # "multipart" THEN {}
    ELSE {k \in 1..Len(bs.bodies) :
             /\ bs.bodies[k].kind = "basic"
             /\ bs.bodies[k].disposition # None
             /\ bs.bodies[k].disposition[1].ty = "attachment"
             /\ bs.bodies[k].disposition[1].params # None}

ParamsOf(bs, k) == bs.bodies[k].disposition[1].params[1]

\* the n-th attachment child, in the order of the structure
NthChild(bs, n) ==
    CHOOSE k \in AttachmentChildren(bs) :
        Cardinality({j \in AttachmentChildren(bs) : j <= k}) = n

\* the list the claim describes
ExpectedAttachments(bs) ==
    [n \in 1..Cardinality(AttachmentChildren(bs)) |->
        LET ps == ParamsOf(bs, NthChild(bs, n))
        IN  [name |-> DecodeHeaderValue(ps[1][2]),
             size |-> IF Len(ps) >= 2 THEN ParseU32(ps[2][2]) ELSE None]]

\* every second parameter of an attachment child is a u32 in decimal
SizesParse(bs) ==
    \A k \in AttachmentChildren(bs) :
        Len(ParamsOf(bs, k)) >= 2 => ParseU32(ParamsOf(bs, k)[2][2]) # None

Processed == ret.ok /\ pc \in {"done", "panic"}

\* C10 as stated: for every body structure the message is returned with the
\* attachment list described.
C10_AttachmentsAsStated ==
    Processed =>
        /\ Returned
        /\ Len(mails) = 1
        /\ mails[1].attachments = ExpectedAttachments(TheMessage.bodystructure)

\* C10 amended: the same for every body structure in which the second
\* parameter of each attachment child, if any, parses as a u32; for the others
\* fetch panics on the size and returns nothing.
C10_Attachments ==
    Processed =>
        IF SizesParse(TheMessage.bodystructure)
        THEN /\ Returned
             /\ Len(mails) = 1
             /\ mails[1].attachments = ExpectedAttachments(TheMessage.bodystructure)
        ELSE pc = "panic" /\ err = "size_parse"

\* C10 witness: a multipart message with a text part that is an attachment
\* and a basic attachment named by an encoded word, of size 7, returned with
\* that one attachment.
C10_Witness ==
    /\ Returned
    /\ Len(mails) = 1
    /\ TheMessage.bodystructure.kind = "multipart"
    /\ Len(TheMessage.bodystructure.bodies) = 2
    /\ TheMessage.bodystructure.bodies[1].kind = "text"
    /\ TheMessage.bodystructure.bodies[1].disposition # None
    /\ mails[1].attachments = <<[name |-> <<"b">>, size |-> Some(<<"7">>)]>>

\* --------------------------------------------------------- C11, recipients
\* the parts of s between its commas: part n runs from after the (n-1)-th
\* comma to before the n-th
CommaPlaces(s) == {k \in 1..Len(s) : s[k] = ","}

NthComma(s, n) ==
    IF n = 0 THEN 0
    ELSE IF n > Cardinality(CommaPlaces(s)) THEN Len(s) + 1
    ELSE CHOOSE k \in CommaPlaces(s) : Cardinality({j \in CommaPlaces(s) : j <= k}) = n

PartsBetweenCommas(s) ==
    [n \in 1..(Cardinality(CommaPlaces(s)) + 1) |->
        SubSeq(s, NthComma(s, n - 1) + 1, NthComma(s, n) - 1)]

IsTrimmed(s) == s = <<>> \/ (s[1] # " " /\ s[Len(s)] # " ")

\* t is s without white space at its ends
IsTrimOf(t, s) ==
    /\ IsTrimmed(t)
    /\ \E a, b \in 0..Len(s) :
          /\ a + b + Len(t) = Len(s)
          /\ t = SubSeq(s, a + 1, Len(s) - b)
          /\ \A k \in (1..a) \cup ((Len(s) - b + 1)..Len(s)) : s[k] = " "

\* what the claim says the list of a header h is
IsRecipientList(list, h) ==
    IF h = None THEN list = <<>>
    ELSE LET parts == PartsBetweenCommas(DecodeHeaderValue(h[1]))
         IN  /\ Len(list) = Len(parts)
             /\ \A n \in 1..Len(parts) : IsTrimOf(list[n], parts[n])

\* C11: recipient lists.  Every returned record's to (cc) is the decoded To
\* (CC) header value split on "," with each part trimmed, in header order, and
\* is the empty sequence when the message has no To (CC) header.
C11_RecipientLists ==
    Returned =>
        \A i \in 1..Len(mails) :
            /\ IsRecipientList(mails[i].to, mailbox[mails[i].uid].to)
            /\ IsRecipientList(mails[i].cc, mailbox[mails[i].uid].cc)

\* C11 restricted to the messages that have the header: the split and trim
\* part of the claim
C11_PresentHeaders ==
    Returned =>
        \A i \in 1..Len(mails) :
            /\ mailbox[mails[i].uid].to # None
               => IsRecipientList(mails[i].to, mailbox[mails[i].uid].to)
            /\ mailbox[mails[i].uid].cc # None
               => IsRecipientList(mails[i].cc, mailbox[mails[i].uid].cc)

\* ------------------------------------------------------------ C12, folders
\* C12: the search runs against the folder asked for.  Whenever the run has
\* sent its search or a fetch, the folder selected on the session is one whose
\* decoded name is the name given to Client::get.
C12_SearchesWantedFolder ==
    SearchSent =>
        /\ selected # 0
        /\ DecodeUtf7(folders[selected].name) = wanted

\* ---------------------------------------------------- C13, the fetch loop
\* the uids of the fetches this run has sent, in the order sent
IsFetch(request) == request.op = "fetch"

FetchedUids ==
    [i \in 1..Len(SelectSeq(log, IsFetch)) |-> SelectSeq(log, IsFetch)[i].arg[1]]

IsPrefix(s, t) == Len(s) <= Len(t) /\ \A i \in 1..Len(s) : s[i] = t[i]

\* the panics outside the loop of fetch
OtherErrors == {"list_error", "select_error", "folder_not_found", "subtract_overflow"}

\* the uids fetched so far that were decided without a panic
Decided ==
    IF pc = "panic" /\ err \notin OtherErrors
    THEN Len(FetchedUids) - 1
    ELSE Len(FetchedUids)

\* C13: candidates are processed independently and in sequence.  The fetches
\* sent follow the order in which the search's uids are iterated, one fetch per
\* uid; a fetch is sent only once every earlier uid is decided; and when the
\* run is over every uid of the search has been fetched, whatever was rejected
\* before it.
C13_EveryUidFetchedInSequence ==
    SearchSent =>
        /\ IsPrefix(FetchedUids, iter)
        /\ pc = "loop" => idx = Len(FetchedUids) + 1
        /\ pc \in {"done", "panic"} => FetchedUids = iter

\* what holds of the loop: the order, one fetch per uid, and every uid fetched
\* in each run that returns; a rejection at the date or the subject filter
\* stops nothing
C13_ReturnedRuns ==
    SearchSent =>
        /\ IsPrefix(FetchedUids, iter)
        /\ pc = "loop" => idx = Len(FetchedUids) + 1
        /\ Returned => FetchedUids = iter
        /\ Len(mails) <= Decided

\* ------------------------------------------------- C14, viewer selection
\* the selection is none or a row of the list shown
SelectionValid ==
    \/ ~IsSome(state)
    \/ /\ 0 <= Unwrap(state)
       /\ Unwrap(state) < Len(mails)

\* C14: the viewer's selection stays valid.  Whenever the viewer shows a list,
\* the selected row is none or an index of that list, and no key event has
\* evaluated mails.len() - 1 on an empty list, whether that panicked or
\* wrapped around.
C14_SelectionValid ==
    /\ err # "subtract_overflow"
    /\ ~wrapped
    /\ Returned => SelectionValid

\* what holds of the key events: from a valid selection in a list that is not
\* empty, Down goes to the next row and from the last row to row 0, Up goes to
\* the row before and from row 0 to the last row, and the selection stays valid
C14_WrapsInNonEmptyList ==
    [][(Len(mails) > 0 /\ IsSome(state) /\ SelectionValid) =>
          /\ AppNext =>
                state' = Some(IF Unwrap(state) = Len(mails) - 1 THEN 0 ELSE Unwrap(state) + 1)
          /\ AppPrevious =>
                state' = Some(IF Unwrap(state) = 0 THEN Len(mails) - 1 ELSE Unwrap(state) - 1)
          /\ (AppNext \/ AppPrevious) => SelectionValid']_vars

====
